---------------------------- MODULE Spec2Model ----------------------------
(***************************************************************************)
(* A model of app.py of tg-comps-bot: the /run_comps endpoint (subject     *)
(* defaults, comparable normalisation, similarity score, filter and sort,  *)
(* ARV, rehab cost, MAO tiers, dispo price, report and summary) and the    *)
(* /comp chat command that posts to it.                                    *)
(*                                                                         *)
(* Units.  Python floats are modelled by exact rationals:                  *)
(*   - a price per square foot is a reduced fraction <<num, den>>;         *)
(*   - baths are counted in half baths (2 baths = 4, 2.5 baths = 5);       *)
(*   - rehab rates are in tenths of a dollar (42.5 = 425);                 *)
(*   - MAO tiers are in hundredths (0.65 = 65);                            *)
(*   - math.log is a fixed-point series in ten-thousandths.                *)
(* round() is Python 3's round-half-to-even.                               *)
(***************************************************************************)
EXTENDS Integers, Sequences, FiniteSets, TLC

\* Python's None (payload.get(...) of a missing key, a missing record field).
None == -1

-----------------------------------------------------------------------------
(* Arithmetic helpers *)

Abs(x) == IF x < 0 THEN -x ELSE x

Min(a, b) == IF a <= b THEN a ELSE b

Max(a, b) == IF a >= b THEN a ELSE b

RECURSIVE Gcd(_, _)
Gcd(a, b) == IF b = 0 THEN a ELSE Gcd(b, a % b)

\* round(floor + rem/den) for 0 <= rem < den, half to even.
RoundParts(floor, rem, den) ==
  IF 2 * rem < den THEN floor
  ELSE IF 2 * rem > den THEN floor + 1
  ELSE IF floor % 2 = 0 THEN floor ELSE floor + 1

\* round(n / d), d > 0.
RoundHalfEven(n, d) == RoundParts(n \div d, n % d, d)

\* round(q[1] * k / (q[2] * m)) for a fraction q and integers k >= 0, m > 0,
\* splitting off the integer part of q first to keep the products small.
RoundScaled(q, k, m) ==
  LET den == q[2] * m
      whole == q[1] \div den
      part == (q[1] % den) * k
  IN  RoundParts(whole * k + part \div den, part % den, den)

\* The fraction n/d in lowest terms (d > 0, n >= 0).
Frac(n, d) == LET g == Gcd(n, d) IN <<n \div g, d \div g>>

FracLess(p, q) == p[1] * q[2] < q[1] * p[2]

\* (p + q) / 2
FracMean(p, q) == Frac(p[1] * q[2] + q[1] * p[2], 2 * p[2] * q[2])


\* math.log(n) in ten-thousandths, n >= 1: n = 2^k * m with 1 <= m < 2,
\* ln m = 2 atanh((m-1)/(m+1)) by its series, in units of 1/100000.
RECURSIVE Log2Floor(_)
Log2Floor(n) == IF n < 2 THEN 0 ELSE 1 + Log2Floor(n \div 2)

RECURSIVE Pow2(_)
Pow2(k) == IF k = 0 THEN 1 ELSE 2 * Pow2(k - 1)

LnTenK(n) ==
  LET k  == Log2Floor(n)
      p  == Pow2(k)
      z  == ((n - p) * 100000) \div (n + p)
      z2 == (z * z) \div 100000
      z3 == (z2 * z) \div 100000
      z5 == (z3 * z2) \div 100000
      z7 == (z5 * z2) \div 100000
      z9 == (z7 * z2) \div 100000
      s  == z + z3 \div 3 + z5 \div 5 + z7 \div 7 + z9 \div 9
  IN  RoundHalfEven(2 * s + k * 69315, 10)

-----------------------------------------------------------------------------
(* Calendar dates.  A date string is modelled by its fields <<y, m, d>>;   *)
(* a string dateutil cannot read is a tuple that names no calendar day.    *)

IsLeap(y) == (y % 4 = 0 /\ y % 100 # 0) \/ y % 400 = 0

DaysInMonth(y, m) ==
  IF m = 2 THEN (IF IsLeap(y) THEN 29 ELSE 28)
  ELSE IF m \in {4, 6, 9, 11} THEN 30 ELSE 31

RECURSIVE DaysBeforeMonth(_, _)
DaysBeforeMonth(y, m) ==
  IF m = 1 THEN 0 ELSE DaysBeforeMonth(y, m - 1) + DaysInMonth(y, m - 1)

\* dparser.parse(date_str) succeeds.
DateParses(s) ==
  /\ Len(s) = 3
  /\ s[1] >= 1
  /\ s[2] \in 1..12
  /\ s[3] \in 1..DaysInMonth(s[1], s[2])

\* date.toordinal()
ToOrdinal(s) ==
  LET y == s[1] - 1
  IN  y * 365 + y \div 4 - y \div 100 + y \div 400
        + DaysBeforeMonth(s[1], s[2]) + s[3]

\* days_since(date_str) with the current UTC date `now`.
days_since(date_str, now) == ToOrdinal(now) - ToOrdinal(date_str)

-----------------------------------------------------------------------------
(* Python truthiness and the `x or default` idiom *)

\* A record field or local that holds an int or None.
TruthyInt(x) == x # None /\ x # 0

OrInt(x, d) == IF TruthyInt(x) THEN x ELSE d

\* A JSON value of the payload: absent/null, a number, a string holding a
\* decimal number, or a string that holds no number.
Missing == [kind |-> "none", v |-> 0]

Num(n) == [kind |-> "num", v |-> n]

Str(n) == [kind |-> "str", v |-> n]

BadStr == [kind |-> "bad", v |-> 0]

Truthy(x) == x.kind \in {"str", "bad"} \/ (x.kind = "num" /\ x.v # 0)

OrDefault(x, d) == IF Truthy(x) THEN x ELSE Num(d)

\* int(x) / float(x) raise ValueError on a string that holds no number.
Converts(x) == x.kind # "bad"

\* str.lower() on the tags the model feeds in.
Lower(s) ==
  CASE s = "POOR" -> "poor"
    [] s = "Fair" -> "fair"
    [] s = "Hot" -> "hot"
    [] s = "STANDARD" -> "standard"
    [] OTHER -> s

\* str.title() on a lower-cased tag.
Title(s) ==
  CASE s = "poor" -> "Poor"
    [] s = "fair" -> "Fair"
    [] s = "excellent" -> "Excellent"
    [] s = "luxury" -> "Luxury"
    [] OTHER -> s

-----------------------------------------------------------------------------
(* Helpers of app.py *)

\* score_comp(subj, comp): comp carries days_since_sale.
score_comp(subj, comp) ==
  LET days     == comp.days_since_sale
      bedDiff  == Abs(OrInt(comp.beds, 0) - OrInt(subj.beds, 0))
      bathDiff == Abs(OrInt(comp.baths, 0) - OrInt(subj.baths, 0))
      yrDiff   == IF TruthyInt(subj.year) /\ TruthyInt(comp.year)
                  THEN Abs(OrInt(comp.year, 0) - OrInt(subj.year, 0)) ELSE 0
      sizeTerm == Abs(LnTenK(OrInt(comp.sqft, 1))
                      - LnTenK(Max(1, OrInt(subj.sqft, 1))))
      \* the score over the common denominator 73 * 6 * 10000
      score    == 100 * 4380000 - 4 * Min(days, 365) * 60000
                    - 30 * sizeTerm * 438 - 8 * bedDiff * 4380000
                    - 5 * bathDiff * 4380000 - Min(yrDiff, 60) * 730000
  IN  Max(0, RoundHalfEven(score, 4380000))

\* comp_reasons(subj, comp): the flags kept, in order.
comp_reasons(subj, comp) ==
  LET size == IF TruthyInt(subj.sqft) /\ TruthyInt(comp.sqft)
                 /\ 10 * Abs(comp.sqft - subj.sqft) <= subj.sqft
              THEN <<"~size match">> ELSE <<>>
      beds == IF comp.beds = subj.beds THEN <<"same beds">> ELSE <<>>
      bath == IF comp.baths = subj.baths THEN <<"same baths">> ELSE <<>>
      rec  == IF comp.days_since_sale <= 45 THEN <<"recent">> ELSE <<>>
      r    == size \o beds \o bath \o rec
  IN  SubSeq(r, 1, Min(3, Len(r)))

\* verify_true_cash(comp)
verify_true_cash(comp) == "Pending"

\* The stub's first, second and third record (lines 63-65).
Ventana == [address |-> "17267 Ventana Dr", sold_price |-> 650000,
            sold_date |-> <<2025, 6, 30>>, beds |-> 3, baths |-> 4,
            sqft |-> 1820, year |-> 1992]

Balboa165 == [address |-> "17165 Balboa Point Way", sold_price |-> 800000,
              sold_date |-> <<2025, 7, 7>>, beds |-> 3, baths |-> 5,
              sqft |-> 2304, year |-> 1992]

Balboa357 == [address |-> "17357 Balboa Point Way", sold_price |-> 735000,
              sold_date |-> <<2025, 3, 7>>, beds |-> 4, baths |-> 4,
              sqft |-> 2013, year |-> 1992]

\* A dict as fetch_portal_comps builds it, with its identity id: the keys
\* run_comps adds later (days_since_sale, ppsf, score, why, cash_status) are
\* not set yet.
NewDict(raw, id) ==
  [id |-> id, address |-> raw.address, sold_price |-> raw.sold_price,
   sold_date |-> raw.sold_date, beds |-> raw.beds, baths |-> raw.baths,
   sqft |-> raw.sqft, year |-> raw.year,
   days_since_sale |-> None, ppsf |-> <<>>, score |-> None, why |-> <<>>,
   cash_status |-> ""]

\* New dicts for the records src, with the identities base+1, base+2, ...
NewDicts(src, base) == [i \in 1..Len(src) |-> NewDict(src[i], base + i)]

\* A plausible slip: the records live in one module-level list that every
\* call returns, instead of being built by each call.
fetch_shared_list(h, src) ==
  IF Len(h) >= Len(src) /\ Len(src) > 0
  THEN [heap |-> h, raw |-> [i \in 1..Len(src) |-> i]]
  ELSE [heap |-> h \o NewDicts(src, Len(h)),
        raw |-> [i \in 1..Len(src) |-> Len(h) + i]]

\* fetch_portal_comps(address): every call builds a new list of new dicts.
\* h is the object store, src the records the source holds; the result is
\* the store with the new dicts and the list of their identities.
fetch_portal_comps(h, src) ==
  [heap |-> h \o NewDicts(src, Len(h)),
   raw |-> [i \in 1..Len(src) |-> Len(h) + i]]

\* c.get("ppsf") is truthy: set, not None, not 0.0
HasPpsf(c) == Len(c.ppsf) = 2 /\ c.ppsf[1] # 0

\* A plausible slip: the area defaulted to 1 as score_comp does, so that a
\* record without an area gets a price per area all the same.
PpsfAreaOrOne(rec) == Frac(rec.sold_price, OrInt(rec.sqft, 1))

\* Line 184: sold_price / sqft if r.get("sqft") else None
Ppsf(rec) ==
  IF TruthyInt(rec.sqft) THEN Frac(rec.sold_price, rec.sqft) ELSE <<>>

\* Lines 183-187: one pass of the loop body over record rec.
Augment(subject, rec, now) ==
  LET a == [rec EXCEPT !.days_since_sale = days_since(rec.sold_date, now),
                       !.ppsf = Ppsf(rec)]
      b == [a EXCEPT !.score = score_comp(subject, a)]
      c == [b EXCEPT !.why = comp_reasons(subject, b)]
  IN  [c EXCEPT !.cash_status = verify_true_cash(c)]

\* Line 190: [c for c in comps if c.get("ppsf")]
RECURSIVE FilterComps(_)
FilterComps(cs) ==
  IF cs = <<>> THEN <<>>
  ELSE (IF HasPpsf(Head(cs)) THEN <<Head(cs)>> ELSE <<>>)
         \o FilterComps(Tail(cs))

\* A plausible slip: the tie-break dropped from the key.
ScoreOnlyKey(a, b) == a.score > b.score

\* Line 191: key (-score, days_since_sale), a strictly before b
KeyBefore(a, b) ==
  \/ a.score > b.score
  \/ a.score = b.score /\ a.days_since_sale < b.days_since_sale

\* list.sort is stable: x goes after every element it is not strictly before.
RECURSIVE InsertComp(_, _)
InsertComp(sorted, x) ==
  IF sorted = <<>> THEN <<x>>
  ELSE IF KeyBefore(x, Head(sorted)) THEN <<x>> \o sorted
  ELSE <<Head(sorted)>> \o InsertComp(Tail(sorted), x)

RECURSIVE SortFrom(_, _)
SortFrom(sorted, rest) ==
  IF rest = <<>> THEN sorted
  ELSE SortFrom(InsertComp(sorted, Head(rest)), Tail(rest))

SortComps(cs) == SortFrom(<<>>, cs)

\* statistics.median sorts its data first.
RECURSIVE InsertFrac(_, _)
InsertFrac(sorted, x) ==
  IF sorted = <<>> THEN <<x>>
  ELSE IF FracLess(x, Head(sorted)) THEN <<x>> \o sorted
  ELSE <<Head(sorted)>> \o InsertFrac(Tail(sorted), x)

RECURSIVE SortFracs(_)
SortFracs(xs) ==
  IF xs = <<>> THEN <<>> ELSE InsertFrac(SortFracs(Tail(xs)), Head(xs))

\* The middle value of non-empty data, or the mean of the two middle values.
Middle(xs) ==
  LET s == SortFracs(xs)
      n == Len(s)
  IN  IF n % 2 = 1 THEN s[(n + 1) \div 2]
      ELSE FracMean(s[n \div 2], s[n \div 2 + 1])

\* A plausible slip: no data valued at zero instead of raising.
median_or_zero(xs) ==
  IF xs = <<>> THEN [raises |-> FALSE, value |-> <<0, 1>>]
  ELSE [raises |-> FALSE, value |-> Middle(xs)]

\* statistics.median(data): raises StatisticsError on no data.
statistics_median(xs) ==
  IF xs = <<>> THEN [raises |-> TRUE, value |-> <<>>]
  ELSE [raises |-> FALSE, value |-> Middle(xs)]

-----------------------------------------------------------------------------
(* The valuation arithmetic of run_comps, lines 193-211 *)

\* A plausible slip: the default subject area used whatever the subject's.
ArvDefaultArea(median_ppsf, sqft) == RoundScaled(median_ppsf, 1627, 1)

\* Line 194: round(median_ppsf * (subject["sqft"] or 0))
Arv(median_ppsf, sqft) == RoundScaled(median_ppsf, OrInt(sqft, 0), 1)

\* Line 196: REHAB_PSF.get(condition, REHAB_PSF["fair"]), in tenths
RehabPsf(table, condition) ==
  IF condition \in DOMAIN table THEN table[condition] ELSE table["fair"]

\* Line 197: round((subject["sqft"] or 0) * rehab_psf)
RehabCost(sqft, rehab_psf) == RoundHalfEven(OrInt(sqft, 0) * rehab_psf, 10)

\* Line 203: f"{int(t*100)}%"
TierLabel(t) ==
  CASE t = 65 -> "65%" [] t = 70 -> "70%" [] t = 75 -> "75%" [] OTHER -> "?%"

\* A plausible slip: the tier applied to the ARV net of rehab.
MaoRowRehabScaled(t, arv, rehab_cost, assignment_fee) ==
  LET buyer_max == RoundHalfEven((arv - rehab_cost) * t, 100)
  IN  [tier |-> TierLabel(t), buyer_max |-> buyer_max,
       your_mao |-> buyer_max - assignment_fee]

\* Lines 201-203: one row of the MAO table for tier t (hundredths):
\* buyer_max = round(arv * t / 100 - rehab_cost), the hundreds of arv
\* multiplied apart.
MaoRow(t, arv, rehab_cost, assignment_fee) ==
  LET part      == (arv % 100) * t
      buyer_max == RoundParts((arv \div 100) * t - rehab_cost + part \div 100,
                              part % 100, 100)
  IN  [tier |-> TierLabel(t), buyer_max |-> buyer_max,
       your_mao |-> buyer_max - assignment_fee]

\* Lines 199-203
MaoRows(tiers, arv, rehab_cost, assignment_fee) ==
  [i \in 1..Len(tiers) |-> MaoRow(tiers[i], arv, rehab_cost, assignment_fee)]

\* Lines 205-206: round(median_ppsf * 0.95 * (subject["sqft"] or 0))
DispoPrice(median_ppsf, sqft) == RoundScaled(median_ppsf, 19 * OrInt(sqft, 0), 20)

\* Lines 208-209: tier_map.get(highlight, "65%")
HighlightLabel(highlight) ==
  CASE highlight = "aggressive" -> "65%"
    [] highlight = "standard" -> "70%"
    [] highlight = "hot" -> "75%"
    [] OTHER -> "65%"

\* Line 210: {"65%":0, "70%":1, "75%":2}[highlight_label], as a 1-based index
HighlightIdx(label) ==
  CASE label = "65%" -> 1 [] label = "70%" -> 2 [] label = "75%" -> 3

\* generate_pdf(...): the packet written to the temporary file.
generate_pdf(subject, comps, arv, condition, rehab_cost, assignment_fee, mao_rows, dispo_price) ==
  [title |-> subject.address,
   sub |-> <<subject.beds, subject.baths, subject.sqft, subject.year>>,
   condition |-> Title(condition), assignment_fee |-> assignment_fee,
   arv |-> arv, rehab_cost |-> rehab_cost, dispo_price |-> dispo_price,
   comps |-> comps, mao_rows |-> mao_rows]

\* Lines 214-217: the values the summary line shows, in the order shown.
Summary(arv, condition, rehab_cost, highlight_label, highlight_mao, dispo_price) ==
  [arv |-> arv, condition |-> condition, rehab_cost |-> rehab_cost,
   label |-> highlight_label, mao |-> highlight_mao, dispo |-> dispo_price]

-----------------------------------------------------------------------------
(* Text handling of the chat command.  A text is the tuple of its          *)
(* characters; the only whitespace the model feeds in is the blank.        *)

IsWs(c) == c = " "

\* \w of the regular expressions
IsWord(c) == c \notin {" ", "-", ",", "/", "."}

\* [\S ] of the regular expressions
IsBody(c) == ~IsWs(c) \/ c = " "

\* re.I on the letters the model writes in upper case
LowerCh(c) ==
  CASE c = "A" -> "a" [] c = "E" -> "e" [] c = "H" -> "h" [] c = "M" -> "m"
    [] c = "O" -> "o" [] c = "P" -> "p" [] OTHER -> c

LowerText(t) == [i \in 1..Len(t) |-> LowerCh(t[i])]

\* str.strip()
RECURSIVE LStrip(_)
LStrip(t) == IF t # <<>> /\ IsWs(Head(t)) THEN LStrip(Tail(t)) ELSE t

RECURSIVE RStrip(_)
RStrip(t) ==
  IF t # <<>> /\ IsWs(t[Len(t)]) THEN RStrip(SubSeq(t, 1, Len(t) - 1)) ELSE t

Strip(t) == RStrip(LStrip(t))

\* str.rstrip(",")
RECURSIVE RStripComma(_)
RStripComma(t) ==
  IF t # <<>> /\ t[Len(t)] = "," THEN RStripComma(SubSeq(t, 1, Len(t) - 1))
  ELSE t

\* text.split(None, 1): the number of parts and the second part.  Leading
\* whitespace is dropped, the first run of whitespace ends the first part,
\* and what follows that run, if anything, is the second part.
SplitCommand(text) ==
  LET t == LStrip(text)
      B == {i \in 1..Len(t) : IsWs(t[i])}
      b == CHOOSE i \in B : \A j \in B : i <= j
      r == LStrip(SubSeq(t, b, Len(t)))
  IN  IF B = {} \/ r = <<>> THEN [n |-> 1, rest |-> <<>>]
      ELSE [n |-> 2, rest |-> r]

\* The length of the run of whitespace that starts at position j.
RECURSIVE WsRun(_, _)
WsRun(text, j) ==
  IF j <= Len(text) /\ IsWs(text[j]) THEN 1 + WsRun(text, j + 1) ELSE 0

\* The lookahead (?=\s--|$) holds at position p.
Look(text, p) ==
  \/ p = Len(text) + 1
  \/ p + 2 <= Len(text) /\ IsWs(text[p]) /\ text[p + 1] = "-" /\ text[p + 2] = "-"

\* [\S ]+? after a first character at a: the least end e, or 0.
BodyEnd(text, a) ==
  LET E == {e \in (a + 1)..Len(text) :
              (\A x \in (a + 1)..e : IsBody(text[x])) /\ Look(text, e + 1)}
  IN  IF E = {} THEN 0 ELSE CHOOSE e \in E : \A f \in E : e <= f

\* \s+([^\-][\S ]+?)(?=\s--|$) from position j: the group's first and last
\* position, or <<>>.  \s+ is greedy and gives back, the group is lazy.
TailMatch(text, j) ==
  LET W == {w \in 1..WsRun(text, j) :
              /\ j + w <= Len(text)
              /\ text[j + w] # "-"
              /\ BodyEnd(text, j + w) # 0}
  IN  IF W = {} THEN <<>>
      ELSE LET w == CHOOSE v \in W : \A u \in W : v >= u
           IN  <<j + w, BodyEnd(text, j + w)>>

\* "--" and name (re.I) stand at position i.
NameAt(text, name, i) ==
  /\ i + 1 + Len(name) <= Len(text)
  /\ text[i] = "-"
  /\ text[i + 1] = "-"
  /\ \A n \in 1..Len(name) : LowerCh(text[i + 1 + n]) = name[n]

\* re.search(rf"--{k}\s+([^\-][\S ]+?)(?=\s--|$)", text, re.I) and
\* m.group(1).strip(); <<>> when there is no match.
FlagValue(text, name) ==
  LET I == {i \in 1..Len(text) :
              NameAt(text, name, i) /\ TailMatch(text, i + 2 + Len(name)) # <<>>}
  IN  IF I = {} THEN <<>>
      ELSE LET i == CHOOSE x \in I : \A y \in I : x <= y
               m == TailMatch(text, i + 2 + Len(name))
           IN  Strip(SubSeq(text, m[1], m[2]))

FlagNames ==
  [fee |-> <<"f", "e", "e">>,
   condition |-> <<"c", "o", "n", "d", "i", "t", "i", "o", "n">>,
   beds |-> <<"b", "e", "d", "s">>, baths |-> <<"b", "a", "t", "h", "s">>,
   sqft |-> <<"s", "q", "f", "t">>, year |-> <<"y", "e", "a", "r">>,
   mao |-> <<"m", "a", "o">>]

\* _parse_flags(text): the value of each flag, <<>> for a flag not found.
parse_flags(text) == [k \in DOMAIN FlagNames |-> FlagValue(text, FlagNames[k])]

\* The length of the run of word characters that starts at position j.
RECURSIVE WordRun(_, _)
WordRun(text, j) ==
  IF j <= Len(text) /\ IsWord(text[j]) THEN 1 + WordRun(text, j + 1) ELSE 0

\* --\w+\s+[^\-][\S ]+?(?=\s--|$) matches at position i: its last position,
\* or 0.
AnyFlagEnd(text, i) ==
  IF /\ i + 2 <= Len(text)
     /\ text[i] = "-"
     /\ text[i + 1] = "-"
     /\ WordRun(text, i + 2) >= 1
     /\ TailMatch(text, i + 2 + WordRun(text, i + 2)) # <<>>
  THEN TailMatch(text, i + 2 + WordRun(text, i + 2))[2]
  ELSE 0

\* re.sub(r"--\w+\s+[^\-][\S ]+?(?=\s--|$)", "", text) from position p on.
RECURSIVE SubFrom(_, _)
SubFrom(text, p) ==
  IF p > Len(text) THEN <<>>
  ELSE IF AnyFlagEnd(text, p) # 0 THEN SubFrom(text, AnyFlagEnd(text, p) + 1)
  ELSE <<text[p]>> \o SubFrom(text, p + 1)

\* Line 247: the address is what is left of the text without its flags.
AddressOf(text) == RStripComma(Strip(SubFrom(text, 1)))

DigitValue(c) ==
  CASE c = "0" -> 0 [] c = "1" -> 1 [] c = "2" -> 2 [] c = "3" -> 3
    [] c = "4" -> 4 [] c = "5" -> 5 [] c = "6" -> 6 [] c = "7" -> 7
    [] c = "8" -> 8 [] c = "9" -> 9 [] OTHER -> None

IsNumber(t) == t # <<>> /\ \A i \in 1..Len(t) : DigitValue(t[i]) # None

RECURSIVE NumberOf(_)
NumberOf(t) ==
  IF t = <<>> THEN 0
  ELSE 10 * NumberOf(SubSeq(t, 1, Len(t) - 1)) + DigitValue(t[Len(t)])

\* A flag's text as the JSON value the payload carries: null, or a string.
JsonOf(t) ==
  IF t = <<>> THEN Missing ELSE IF IsNumber(t) THEN Str(NumberOf(t)) ELSE BadStr

\* A tag's characters as the tag.
TagOf(t) ==
  CASE t = <<"p", "o", "o", "r">> -> "poor"
    [] t = <<"f", "a", "i", "r">> -> "fair"
    [] t = <<"h", "o", "t">> -> "hot"
    [] t = <<"l", "u", "x">> -> "lux"
    [] OTHER -> "other"

NoSummary == [arv |-> None, condition |-> "", rehab_cost |-> None,
              label |-> "", mao |-> None, dispo |-> None]

NoBotLocals ==
  [address |-> <<>>, condition |-> "", fee |-> None, highlight |-> "",
   fl |-> [k \in DOMAIN FlagNames |-> <<>>], pdf_path |-> None,
   summary |-> NoSummary]

-----------------------------------------------------------------------------
(* State *)

VARIABLES
  REHAB_PSF,   \* module global, line 31 (tenths of a dollar per sqft)
  MAO_TIERS,   \* module global, line 32 (hundredths)
  today,       \* datetime.now(timezone.utc).date()
  source,      \* the records the comparable source holds
  heap,        \* the dicts built by fetch_portal_comps, by identity
  files,       \* the temporary files written by generate_pdf
  inbox,       \* per request: the payload it is called with
  pc,          \* per request: where run_comps is
  loc,         \* per request: the locals of run_comps
  message,     \* the chat update comp_cmd handles
  bot_pc,      \* where comp_cmd is
  bot,         \* the locals of comp_cmd
  outbox       \* what comp_cmd has sent, in order

vars == <<REHAB_PSF, MAO_TIERS, today, source, heap, files, inbox, pc, loc,
          message, bot_pc, bot, outbox>>

api_vars == <<REHAB_PSF, MAO_TIERS, today, source, heap, files, inbox, pc, loc>>

bot_vars == <<message, bot_pc, bot, outbox>>

\* The requests the model serves at once (uvicorn runs a sync endpoint on
\* a thread pool).
Reqs == {1, 2}

NoSubject == [address |-> <<>>, beds |-> None, baths |-> None, sqft |-> None,
              year |-> None]

\* The locals of run_comps before its first line.
NoLocals ==
  [condition |-> "", assignment_fee |-> None, highlight |-> "",
   subject |-> NoSubject, raw |-> <<>>, comps |-> <<>>,
   median_ppsf |-> <<>>, arv |-> None, rehab_psf |-> None,
   rehab_cost |-> None, mao_rows |-> <<>>, dispo_price |-> None,
   highlight_label |-> "", highlight_mao |-> None, pdf_path |-> None,
   summary |-> NoSummary, error |-> ""]

NoOverrides == [beds |-> Missing, baths |-> Missing, sqft |-> Missing,
                year |-> Missing]

NoPayload == [address |-> <<>>, condition |-> "", assignment_fee |-> Missing,
              highlight_tier |-> "", subject_overrides |-> NoOverrides]

-----------------------------------------------------------------------------
(* run_comps, one action per stretch of straight-line code *)

\* Lines 166-178: the payload's fields and their defaults; int() and float()
\* raise ValueError on text that holds no number.
Begin(r) ==
  /\ pc[r] = "called"
  /\ LET p    == inbox[r]
         so   == p.subject_overrides
         fee  == OrDefault(p.assignment_fee, 20000)
         beds == OrDefault(so.beds, 3)
         bath == OrDefault(so.baths, 4)
         sqft == OrDefault(so.sqft, 1627)
         year == OrDefault(so.year, 1992)
     IN  IF \A x \in {fee, beds, bath, sqft, year} : Converts(x)
         THEN /\ loc' = [loc EXCEPT ![r] =
                   [@ EXCEPT !.condition = Lower(IF p.condition # "" THEN p.condition ELSE "fair"),
                             !.assignment_fee = fee.v,
                             !.highlight = Lower(IF p.highlight_tier # "" THEN p.highlight_tier ELSE "aggressive"),
                             !.subject = [address |-> p.address, beds |-> beds.v,
                                          baths |-> bath.v, sqft |-> sqft.v,
                                          year |-> year.v]]]
              /\ pc' = [pc EXCEPT ![r] = "fetch"]
         ELSE /\ loc' = [loc EXCEPT ![r].error = "ValueError"]
              /\ pc' = [pc EXCEPT ![r] = "failed"]
  /\ UNCHANGED <<REHAB_PSF, MAO_TIERS, today, source, heap, files, inbox, bot_vars>>

\* Lines 180-181: raw = fetch_portal_comps(address); comps = []
Fetch(r) ==
  /\ pc[r] = "fetch"
  /\ LET f == fetch_portal_comps(heap, source)
     IN  /\ heap' = f.heap
         /\ loc' = [loc EXCEPT ![r].raw = f.raw]
  /\ pc' = [pc EXCEPT ![r] = "loop"]
  /\ UNCHANGED <<REHAB_PSF, MAO_TIERS, today, source, files, inbox, bot_vars>>

\* Lines 182-188: one pass of the loop; dparser.parse raises ParserError on
\* a sold_date it cannot read.
Normalise(r) ==
  /\ pc[r] = "loop"
  /\ Len(loc[r].comps) < Len(loc[r].raw)
  /\ LET id == loc[r].raw[Len(loc[r].comps) + 1]
     IN  IF DateParses(heap[id].sold_date)
         THEN /\ heap' = [heap EXCEPT ![id] = Augment(loc[r].subject, @, today)]
              /\ loc' = [loc EXCEPT ![r].comps = Append(@, id)]
              /\ pc' = pc
         ELSE /\ loc' = [loc EXCEPT ![r].error = "ParserError"]
              /\ pc' = [pc EXCEPT ![r] = "failed"]
              /\ heap' = heap
  /\ UNCHANGED <<REHAB_PSF, MAO_TIERS, today, source, files, inbox, bot_vars>>

\* The dicts a list of references holds, as they are now.
Deref(ids) == [i \in 1..Len(ids) |-> heap[ids[i]]]

Ids(cs) == [i \in 1..Len(cs) |-> cs[i].id]

\* Lines 190-191: the filter, then the in-place sort.
FilterSort(r) ==
  /\ pc[r] = "loop"
  /\ Len(loc[r].comps) = Len(loc[r].raw)
  /\ loc' = [loc EXCEPT ![r].comps = Ids(SortComps(FilterComps(Deref(@))))]
  /\ pc' = [pc EXCEPT ![r] = "value"]
  /\ UNCHANGED <<REHAB_PSF, MAO_TIERS, today, source, heap, files, inbox, bot_vars>>

Ppsfs(cs) == [i \in 1..Len(cs) |-> cs[i].ppsf]

\* Lines 193-211: statistics.median raises StatisticsError on no data;
\* otherwise ARV, rehab cost, MAO rows, dispo price and the highlighted row.
Valuate(r) ==
  /\ pc[r] = "value"
  /\ LET l     == loc[r]
         m     == statistics_median(Ppsfs(Deref(l.comps)))
         med   == m.value
         arv   == Arv(med, l.subject.sqft)
         psf   == RehabPsf(REHAB_PSF, l.condition)
         cost  == RehabCost(l.subject.sqft, psf)
         rows  == MaoRows(MAO_TIERS, arv, cost, l.assignment_fee)
         label == HighlightLabel(l.highlight)
     IN  IF m.raises
         THEN /\ loc' = [loc EXCEPT ![r].error = "StatisticsError"]
              /\ pc' = [pc EXCEPT ![r] = "failed"]
         ELSE /\ loc' = [loc EXCEPT ![r] =
                    [@ EXCEPT !.median_ppsf = med, !.arv = arv,
                              !.rehab_psf = psf, !.rehab_cost = cost,
                              !.mao_rows = rows,
                              !.dispo_price = DispoPrice(med, l.subject.sqft),
                              !.highlight_label = label,
                              !.highlight_mao = rows[HighlightIdx(label)].your_mao]]
              /\ pc' = [pc EXCEPT ![r] = "render"]
  /\ UNCHANGED <<REHAB_PSF, MAO_TIERS, today, source, heap, files, inbox, bot_vars>>

\* Lines 213-218: the packet is written, the summary built, both returned.
Render(r) ==
  /\ pc[r] = "render"
  /\ LET l == loc[r]
     IN  /\ files' = Append(files,
                generate_pdf(l.subject, Deref(l.comps), l.arv, l.condition,
                             l.rehab_cost, l.assignment_fee, l.mao_rows,
                             l.dispo_price))
         /\ loc' = [loc EXCEPT ![r] =
               [@ EXCEPT !.pdf_path = Len(files) + 1,
                         !.summary = Summary(l.arv, l.condition, l.rehab_cost,
                                             l.highlight_label, l.highlight_mao,
                                             l.dispo_price)]]
  /\ pc' = [pc EXCEPT ![r] = "done"]
  /\ UNCHANGED <<REHAB_PSF, MAO_TIERS, today, source, heap, inbox, bot_vars>>

-----------------------------------------------------------------------------
(* What the comparable source may hold.  The stub holds Stub; a live source *)
(* may hold records without an area, none at all, sales of equal standing,  *)
(* a sale dated after today, or a date that cannot be read.                 *)

Stub == <<Ventana, Balboa165, Balboa357>>

PartArea == <<Ventana, [Balboa165 EXCEPT !.sqft = None],
              [Balboa357 EXCEPT !.sqft = 0]>>

NoComps == <<>>

NoArea == <<[Ventana EXCEPT !.sqft = None], [Balboa165 EXCEPT !.sqft = 0]>>

Cheap == <<[Ventana EXCEPT !.sold_price = 10, !.sqft = 1000],
           [Balboa357 EXCEPT !.sold_price = 12, !.sqft = 1000]>>

Twins == <<[Ventana EXCEPT !.address = "17269 Ventana Dr",
                           !.sold_date = <<2025, 1, 15>>],
           Balboa357, Ventana, Balboa165>>

Ahead == <<Ventana,
           [address |-> "1 Model Home Ct", sold_price |-> 569450,
            sold_date |-> <<2026, 11, 21>>, beds |-> 3, baths |-> 4,
            sqft |-> 1627, year |-> 1992]>>

BadDate == <<Ventana, [Balboa165 EXCEPT !.sold_date = <<2025, 2, 30>>]>>

Sources == {Stub, PartArea, NoComps, NoArea, Cheap, Twins, Ahead, BadDate}

Todays == {<<2025, 7, 10>>, <<2026, 11, 1>>}

\* A subject address, as the characters of its text.
Addresses == {<<"9", " ", "E", "l", "m">>}

Conditions == {"", "POOR", "luxury"}

Highlights == {"", "Hot", "unknown"}

Fees == {Missing, Num(5000)}

OverrideSets ==
  [beds : {Missing, Num(0), Num(4), BadStr},
   baths : {Missing, Num(5)},
   sqft : {Missing, Num(1), Num(2000)},
   year : {Missing, Num(1950)}]

Payloads ==
  [address : Addresses, condition : Conditions, assignment_fee : Fees,
   highlight_tier : Highlights, subject_overrides : OverrideSets]

\* The module globals as lines 31-32 set them.
InitGlobals ==
  /\ REHAB_PSF = [c \in {"excellent", "fair", "poor"} |->
                    CASE c = "excellent" -> 200 [] c = "fair" -> 425
                      [] c = "poor" -> 850]
  /\ MAO_TIERS = <<65, 70, 75>>

InitBotOff ==
  /\ message = <<>>
  /\ bot_pc = "off"
  /\ bot = NoBotLocals
  /\ outbox = <<>>

\* One request, any payload, any source, either date.
Init ==
  /\ InitGlobals
  /\ today \in Todays
  /\ source \in Sources
  /\ heap = <<>>
  /\ files = <<>>
  /\ inbox \in {[r \in Reqs |-> IF r = 1 THEN p ELSE NoPayload] : p \in Payloads}
  /\ pc = [r \in Reqs |-> IF r = 1 THEN "called" ELSE "off"]
  /\ loc = [r \in Reqs |-> NoLocals]
  /\ InitBotOff

Next ==
  \/ \E r \in Reqs : Begin(r)
  \/ \E r \in Reqs : Fetch(r)
  \/ \E r \in Reqs : Normalise(r)
  \/ \E r \in Reqs : FilterSort(r)
  \/ \E r \in Reqs : Valuate(r)
  \/ \E r \in Reqs : Render(r)

Spec == Init /\ [][Next]_vars

-----------------------------------------------------------------------------
(* Two requests served at once, each with its own subject area *)

AreasTwo == {1, 2, 500, 1000, 1627, 3254}

PayloadsTwo ==
  {[address |-> a, condition |-> "", assignment_fee |-> Missing,
    highlight_tier |-> "",
    subject_overrides |-> [NoOverrides EXCEPT !.sqft = s]] :
     a \in Addresses, s \in {Missing} \cup {Num(n) : n \in AreasTwo}}

InitTwo ==
  /\ InitGlobals
  /\ today \in Todays
  /\ source \in Sources
  /\ heap = <<>>
  /\ files = <<>>
  /\ inbox \in [Reqs -> PayloadsTwo]
  /\ pc = [r \in Reqs |-> "called"]
  /\ loc = [r \in Reqs |-> NoLocals]
  /\ InitBotOff

SpecTwo == InitTwo /\ [][Next]_vars

-----------------------------------------------------------------------------
(* comp_cmd, one action per stretch of code between two awaits.  The POST   *)
(* of line 275 is served by run_comps as request 1.                         *)

Sent(kind, text) == [kind |-> kind, text |-> text]

\* Lines 235-259: split the text, read the flags, strip them off the address,
\* fill the defaults and acknowledge.  float() raises ValueError on a fee
\* that holds no number, before anything is sent.
Handle ==
  /\ bot_pc = "update"
  /\ LET parts   == SplitCommand(message)
         fl      == parse_flags(parts.rest)
         address == AddressOf(parts.rest)
     IN  IF parts.n < 2
         THEN /\ outbox' = Append(outbox, Sent("reply", "usage"))
              /\ bot_pc' = "done"
              /\ bot' = bot
         ELSE IF address = <<>>
         THEN /\ outbox' = Append(outbox, Sent("reply", "include an address"))
              /\ bot_pc' = "done"
              /\ bot' = [bot EXCEPT !.fl = fl]
         ELSE IF fl.fee # <<>> /\ ~IsNumber(fl.fee)
         THEN /\ outbox' = outbox
              /\ bot_pc' = "raised"
              /\ bot' = [bot EXCEPT !.fl = fl, !.address = address]
         ELSE /\ outbox' = Append(outbox, Sent("reply", "running comps"))
              /\ bot_pc' = "post"
              /\ bot' = [bot EXCEPT
                   !.fl = fl,
                   !.address = address,
                   !.condition = TagOf(LowerText(IF fl.condition # <<>> THEN fl.condition ELSE <<"f", "a", "i", "r">>)),
                   !.fee = IF fl.fee # <<>> THEN NumberOf(fl.fee) ELSE 20000,
                   !.highlight = IF fl.mao # <<>> THEN TagOf(LowerText(fl.mao)) ELSE "aggressive"]
  /\ UNCHANGED <<message, api_vars>>

\* Lines 261-275: build the payload and post it.
Post ==
  /\ bot_pc = "post"
  /\ inbox' = [inbox EXCEPT ![1] =
        [address |-> bot.address, condition |-> bot.condition,
         assignment_fee |-> Num(bot.fee), highlight_tier |-> bot.highlight,
         subject_overrides |->
           [beds |-> JsonOf(bot.fl.beds), baths |-> JsonOf(bot.fl.baths),
            sqft |-> JsonOf(bot.fl.sqft), year |-> JsonOf(bot.fl.year)]]]
  /\ pc' = [pc EXCEPT ![1] = "called"]
  /\ outbox' = Append(outbox, Sent("post", "/run_comps"))
  /\ bot_pc' = "wait"
  /\ UNCHANGED <<REHAB_PSF, MAO_TIERS, today, source, heap, files, loc, message, bot>>

\* Lines 275-278: the response arrives; r.json() raises on the body of the
\* 500 that an exception in run_comps leaves.
Respond ==
  /\ bot_pc = "wait"
  /\ pc[1] \in {"done", "failed"}
  /\ IF pc[1] = "done"
     THEN /\ bot' = [bot EXCEPT !.pdf_path = loc[1].pdf_path,
                                !.summary = loc[1].summary]
          /\ bot_pc' = "send"
     ELSE /\ bot' = bot
          /\ bot_pc' = "raised"
  /\ UNCHANGED <<message, outbox, api_vars>>

\* Lines 279-282: read the report and send it as a document.
SendDocument ==
  /\ bot_pc = "send"
  /\ bot.pdf_path \in DOMAIN files
  /\ outbox' = Append(outbox, Sent("document", "comps_report.pdf"))
  /\ bot_pc' = "summary"
  /\ UNCHANGED <<message, bot, api_vars>>

\* Lines 284-285: reply with the summary.
SendSummary ==
  /\ bot_pc = "summary"
  /\ outbox' = Append(outbox, Sent("reply", "summary"))
  /\ bot_pc' = "done"
  /\ UNCHANGED <<message, bot, api_vars>>

\* The texts of the /comp messages the model sends.
Cmd == <<"/", "c", "o", "m", "p">>

Blank == <<" ">>

Elm == <<"9", " ", "E", "l", "m">>

Flag(name) == <<"-", "-">> \o name

Messages ==
  {Cmd,
   Cmd \o Blank \o Blank,
   Cmd \o Blank \o Elm,
   Cmd \o Blank \o Blank \o Elm \o <<",">>,
   Cmd \o Blank \o Flag(FlagNames.fee) \o Blank \o <<"5", "0", "0", "0">>,
   Cmd \o Blank \o Flag(FlagNames.mao) \o Blank \o Blank \o Flag(FlagNames.fee)
       \o Blank \o <<"9", "0">>,
   Cmd \o Blank \o Elm \o Blank \o Flag(FlagNames.fee) \o Blank \o <<"a", "b", "c">>,
   Cmd \o Blank \o Elm \o Blank \o Flag(FlagNames.fee) \o Blank \o <<"0", "0">>,
   Cmd \o Blank \o Elm \o Blank \o Flag(FlagNames.beds) \o Blank \o <<"t", "w", "o">>,
   Cmd \o Blank \o Elm \o Blank \o Flag(FlagNames.beds) \o Blank \o <<"4">>,
   Cmd \o Blank \o Elm \o Blank \o Flag(FlagNames.beds) \o Blank \o Blank \o <<"4">>,
   Cmd \o Blank \o Elm \o <<",">> \o Blank \o Flag(<<"M", "A", "O">>) \o Blank
       \o <<"H", "o", "t">> \o Blank \o Flag(FlagNames.fee) \o Blank
       \o <<"5", "0", "0", "0">>,
   Cmd \o Blank \o Elm \o Blank \o Flag(FlagNames.condition) \o Blank
       \o <<"P", "o", "o", "r">> \o Blank \o Flag(FlagNames.sqft) \o Blank
       \o <<"2", "0", "0", "0">>,
   Cmd \o Blank \o Elm \o Blank \o Flag(FlagNames.condition) \o Blank
       \o <<"l", "u", "x">> \o Blank \o Flag(FlagNames.year) \o Blank
       \o <<"1", "9", "5", "0">> \o Blank}

\* One /comp message, any source, either date; the API is idle.
InitBot ==
  /\ InitGlobals
  /\ today \in Todays
  /\ source \in Sources
  /\ heap = <<>>
  /\ files = <<>>
  /\ inbox = [r \in Reqs |-> NoPayload]
  /\ pc = [r \in Reqs |-> "off"]
  /\ loc = [r \in Reqs |-> NoLocals]
  /\ message \in Messages
  /\ bot_pc = "update"
  /\ bot = NoBotLocals
  /\ outbox = <<>>

NextBot ==
  \/ Handle
  \/ Post
  \/ Respond
  \/ SendDocument
  \/ SendSummary
  \/ \E r \in Reqs : Begin(r)
  \/ \E r \in Reqs : Fetch(r)
  \/ \E r \in Reqs : Normalise(r)
  \/ \E r \in Reqs : FilterSort(r)
  \/ \E r \in Reqs : Valuate(r)
  \/ \E r \in Reqs : Render(r)

SpecBot == InitBot /\ [][NextBot]_vars

-----------------------------------------------------------------------------
(* What a request returns, and what run_comps computes for a payload when  *)
(* nothing else runs.                                                      *)

\* A comparable as the report shows it: its identity left out.
CompView(c) ==
  [address |-> c.address, sold_price |-> c.sold_price,
   sold_date |-> c.sold_date, beds |-> c.beds, baths |-> c.baths,
   sqft |-> c.sqft, year |-> c.year, days_since_sale |-> c.days_since_sale,
   ppsf |-> c.ppsf, score |-> c.score, why |-> c.why,
   cash_status |-> c.cash_status]

CompViews(cs) == [i \in 1..Len(cs) |-> CompView(cs[i])]

Failure(kind) ==
  [status |-> "failed", error |-> kind, comps |-> <<>>, arv |-> None,
   rehab_cost |-> None, mao_rows |-> <<>>, dispo_price |-> None,
   summary |-> NoSummary]

\* The result of request r, once it has ended.
Outcome(r) ==
  IF pc[r] = "failed" THEN Failure(loc[r].error)
  ELSE [status |-> "done", error |-> "",
        comps |-> CompViews(files[loc[r].pdf_path].comps),
        arv |-> files[loc[r].pdf_path].arv,
        rehab_cost |-> files[loc[r].pdf_path].rehab_cost,
        mao_rows |-> files[loc[r].pdf_path].mao_rows,
        dispo_price |-> files[loc[r].pdf_path].dispo_price,
        summary |-> loc[r].summary]

\* run_comps(payload) on its own, lines 166-218, with the source holding src
\* and the UTC date now.
Alone(p, src, now) ==
  LET so   == p.subject_overrides
      fee  == OrDefault(p.assignment_fee, 20000)
      beds == OrDefault(so.beds, 3)
      bath == OrDefault(so.baths, 4)
      sqft == OrDefault(so.sqft, 1627)
      year == OrDefault(so.year, 1992)
      cond == Lower(IF p.condition # "" THEN p.condition ELSE "fair")
      high == Lower(IF p.highlight_tier # "" THEN p.highlight_tier ELSE "aggressive")
      subj == [address |-> p.address, beds |-> beds.v, baths |-> bath.v,
               sqft |-> sqft.v, year |-> year.v]
      recs == [i \in 1..Len(src) |-> Augment(subj, NewDict(src[i], i), now)]
      cs   == SortComps(FilterComps(recs))
      m    == statistics_median(Ppsfs(cs))
      med  == m.value
      arv  == Arv(med, subj.sqft)
      cost == RehabCost(subj.sqft, RehabPsf(REHAB_PSF, cond))
      rows == MaoRows(MAO_TIERS, arv, cost, fee.v)
      lab  == HighlightLabel(high)
      disp == DispoPrice(med, subj.sqft)
  IN  IF \E x \in {fee, beds, bath, sqft, year} : ~Converts(x)
      THEN Failure("ValueError")
      ELSE IF \E i \in 1..Len(src) : ~DateParses(src[i].sold_date)
      THEN Failure("ParserError")
      ELSE IF m.raises THEN Failure("StatisticsError")
      ELSE [status |-> "done", error |-> "", comps |-> CompViews(cs),
            arv |-> arv, rehab_cost |-> cost, mao_rows |-> rows,
            dispo_price |-> disp,
            summary |-> Summary(arv, cond, cost, lab,
                                rows[HighlightIdx(lab)].your_mao, disp)]

-----------------------------------------------------------------------------
(* Properties *)

Ended(r) == pc[r] \in {"done", "failed"}

\* No record of the source has an area: missing, zero, or no record at all.
NoUsableArea == \A i \in 1..Len(source) : ~(source[i].sqft # None /\ source[i].sqft > 0)

\* C1: when no comparable has a computable price per area, the request never
\* gets past the median: it fails there (Python's statistics.StatisticsError
\* is the insufficient-data failure; a ValueError of the payload comes
\* first), no ARV is computed, no packet is written, no summary is built.
C1_NoCompsFails ==
  \A r \in Reqs :
    NoUsableArea =>
      /\ pc[r] \notin {"render", "done"}
      /\ pc[r] = "failed" => loc[r].error \in {"StatisticsError", "ValueError"}
      /\ pc[r] = "failed" /\ loc[r].raw # <<>> => loc[r].error = "StatisticsError"
      /\ pc[r] = "failed" /\ loc[r].subject # NoSubject =>
           loc[r].error = "StatisticsError"
      /\ loc[r].arv = None
      /\ loc[r].pdf_path = None
      /\ loc[r].summary = NoSummary
      /\ files = <<>>

C1_Witness ==
  /\ NoUsableArea
  /\ Len(source) > 0
  /\ pc[1] = "failed"
  /\ loc[1].error = "StatisticsError"
  /\ Len(loc[1].raw) = Len(source)

\* C2: every score score_comp has given is an integer from 0 to 100.
C2_ScoreInRange ==
  \A i \in 1..Len(heap) :
    heap[i].score # None => heap[i].score \in 0..100

\* The comparables handed to generate_pdf by request r.
Handed(r) == files[loc[r].pdf_path].comps

\* C3: the comparables handed to the report are in order of score, highest
\* first, equal scores in order of days since sale, fewest first; and they
\* are exactly the records of the source that have an area, each once.
C3_ReportSorted ==
  \A r \in Reqs :
    pc[r] = "done" =>
      LET cs == Handed(r)
      IN  /\ \A i \in 1..(Len(cs) - 1) :
               \/ cs[i].score > cs[i + 1].score
               \/ /\ cs[i].score = cs[i + 1].score
                  /\ cs[i].days_since_sale <= cs[i + 1].days_since_sale
          /\ {cs[i].id : i \in 1..Len(cs)} =
               {loc[r].raw[i] : i \in {j \in 1..Len(source) :
                                          source[j].sqft # None /\ source[j].sqft > 0}}
          /\ \A i, j \in 1..Len(cs) : cs[i].id = cs[j].id => i = j
          /\ \A i \in 1..Len(cs) :
               \E j \in 1..Len(source) :
                 /\ cs[i].id = loc[r].raw[j]
                 /\ cs[i].address = source[j].address
                 /\ cs[i].sold_price = source[j].sold_price

\* A tie in score that the sort had to reorder, next to a record left out.
C3_Witness ==
  /\ pc[1] = "done"
  /\ Len(Handed(1)) >= 2
  /\ \E i \in 1..(Len(Handed(1)) - 1) :
       /\ Handed(1)[i].score = Handed(1)[i + 1].score
       /\ Handed(1)[i].days_since_sale < Handed(1)[i + 1].days_since_sale
       /\ Handed(1)[i].id > Handed(1)[i + 1].id

\* The prices per area of the source's records that have a positive area.
RECURSIVE PositiveAreaPpsfs(_)
PositiveAreaPpsfs(src) ==
  IF src = <<>> THEN <<>>
  ELSE (IF Head(src).sqft # None /\ Head(src).sqft > 0
        THEN <<Frac(Head(src).sold_price, Head(src).sqft)>> ELSE <<>>)
         \o PositiveAreaPpsfs(Tail(src))

\* C4: the ARV is round(median of price per area over exactly the records
\* with a positive area, times the subject area).
C4_ArvIsMedianTimesArea ==
  \A r \in Reqs :
    pc[r] \in {"render", "done"} =>
      /\ PositiveAreaPpsfs(source) # <<>>
      /\ loc[r].arv = RoundScaled(Middle(PositiveAreaPpsfs(source)),
                                  loc[r].subject.sqft, 1)

\* A request valued with some records of the source left out for their area.
C4_Witness ==
  /\ pc[1] = "done"
  /\ Len(PositiveAreaPpsfs(source)) < Len(source)
  /\ loc[1].arv > 0

\* C5 as claimed: buyer-max strictly increasing over the rows 65%, 70%, 75%.
C5_StrictlyIncreasing ==
  \A r \in Reqs :
    pc[r] \in {"render", "done"} =>
      /\ [i \in 1..3 |-> loc[r].mao_rows[i].tier] = <<"65%", "70%", "75%">>
      /\ loc[r].mao_rows[1].buyer_max < loc[r].mao_rows[2].buyer_max
      /\ loc[r].mao_rows[2].buyer_max < loc[r].mao_rows[3].buyer_max

\* C5 amended: the rows are emitted in the order 65%, 70%, 75%; buyer-max
\* never decreases along them, and increases strictly once the ARV is 20 or
\* more (below that, rounding can make two rows equal).
C5_IncreasingFrom20 ==
  \A r \in Reqs :
    pc[r] \in {"render", "done"} =>
      /\ [i \in 1..3 |-> loc[r].mao_rows[i].tier] = <<"65%", "70%", "75%">>
      /\ loc[r].mao_rows[1].buyer_max <= loc[r].mao_rows[2].buyer_max
      /\ loc[r].mao_rows[2].buyer_max <= loc[r].mao_rows[3].buyer_max
      /\ loc[r].arv >= 20 =>
           /\ loc[r].mao_rows[1].buyer_max < loc[r].mao_rows[2].buyer_max
           /\ loc[r].mao_rows[2].buyer_max < loc[r].mao_rows[3].buyer_max

\* A small ARV above the threshold whose rows differ by one dollar.
C5_Witness ==
  /\ pc[1] = "done"
  /\ loc[1].arv \in 20..25
  /\ loc[1].mao_rows[2].buyer_max = loc[1].mao_rows[1].buyer_max + 1

\* C6: the summary names the defaults applied: the condition it shows is
\* the one whose rate was used, and its tier label and MAO are those of one
\* row, the 65% row when the highlight tier is missing or not recognised.
C6_SummaryNamesDefaults ==
  \A r \in Reqs :
    pc[r] = "done" =>
      LET sm == loc[r].summary
      IN  /\ sm.condition \in DOMAIN REHAB_PSF
          /\ REHAB_PSF[sm.condition] = loc[r].rehab_psf
          /\ sm.rehab_cost = RoundHalfEven(loc[r].subject.sqft * REHAB_PSF[sm.condition], 10)
          /\ \E i \in 1..Len(loc[r].mao_rows) :
               /\ loc[r].mao_rows[i].tier = sm.label
               /\ loc[r].mao_rows[i].your_mao = sm.mao
          /\ Lower(inbox[r].highlight_tier) \notin {"standard", "hot"} =>
               sm.label = "65%"

\* C8: a subject field absent from subject_overrides takes its default; a
\* field given as a number is used as given.
C8_OverridesUsedAsGiven ==
  \A r \in Reqs :
    pc[r] \in {"fetch", "loop", "value", "render", "done"} =>
      LET so == inbox[r].subject_overrides
          sj == loc[r].subject
      IN  /\ sj.beds = (IF so.beds.kind = "none" THEN 3 ELSE so.beds.v)
          /\ sj.baths = (IF so.baths.kind = "none" THEN 4 ELSE so.baths.v)
          /\ sj.sqft = (IF so.sqft.kind = "none" THEN 1627 ELSE so.sqft.v)
          /\ sj.year = (IF so.year.kind = "none" THEN 1992 ELSE so.year.v)


\* Requests 1 and 2 were called with subject areas A and 2A.
Doubled ==
  /\ inbox[1].subject_overrides.sqft.kind = "num"
  /\ inbox[2].subject_overrides.sqft.kind = "num"
  /\ inbox[1].subject_overrides.sqft.v > 0
  /\ inbox[2].subject_overrides.sqft.v = 2 * inbox[1].subject_overrides.sqft.v

\* C7 as claimed: for the same comparables, the ARV for subject area 2A is
\* exactly twice the ARV for subject area A.
C7_DoubleAreaDoublesArv ==
  Doubled /\ pc[1] = "done" /\ pc[2] = "done" => loc[2].arv = 2 * loc[1].arv

\* C7 amended: for the same comparables, the ARV for subject area 2A is
\* within one dollar of twice the ARV for subject area A (each ARV is
\* rounded to a whole dollar on its own).
C7_DoubleAreaWithinOne ==
  Doubled /\ pc[1] = "done" /\ pc[2] = "done" =>
    Abs(loc[2].arv - 2 * loc[1].arv) <= 1

C7_Witness ==
  /\ Doubled
  /\ pc[1] = "done"
  /\ pc[2] = "done"
  /\ loc[1].arv > 1000
  /\ loc[2].arv = 2 * loc[1].arv + 1

\* C9: requests share no mutable state.  A request that has ended has the
\* result run_comps gives for its payload on its own; the records one
\* request works on are no other request's; REHAB_PSF and MAO_TIERS are as
\* the module set them.
C9_RequestsIndependent ==
  /\ \A r \in Reqs : Ended(r) => Outcome(r) = Alone(inbox[r], source, today)
  /\ \A r, q \in Reqs :
       r # q => \A i \in 1..Len(loc[r].raw), j \in 1..Len(loc[q].raw) :
                  loc[r].raw[i] # loc[q].raw[j]
  /\ REHAB_PSF = [excellent |-> 200, fair |-> 425, poor |-> 850]
  /\ MAO_TIERS = <<65, 70, 75>>

\* Both requests done, with different subjects, their loops interleaved:
\* request 2 fetched before request 1 had ended its loop, and ended first.
C9_Witness ==
  /\ pc[1] = "done"
  /\ pc[2] = "done"
  /\ loc[1].subject # loc[2].subject
  /\ Len(loc[1].raw) >= 2
  /\ loc[1].raw[1] < loc[2].raw[1]
  /\ loc[2].pdf_path < loc[1].pdf_path


\* What stands after the command word of the message.
AfterCommand == SubSeq(message, Len(Cmd) + 1, Len(message))

NoTextAfterCommand == \A i \in 1..Len(AfterCommand) : IsWs(AfterCommand[i])

EmptyOnceStripped == AddressOf(LStrip(AfterCommand)) = <<>>

\* C10: when comp_cmd has ended, a /comp message with no text after the
\* command, or whose text is empty once the flags are stripped, has got
\* exactly one reply (usage or 'include an address') and no POST; every other
\* /comp message has produced, in this order, one acknowledgement, one POST
\* to /run_comps, the document and then the summary.
C10_RepliesInOrder ==
  bot_pc \in {"done", "raised"} =>
    IF NoTextAfterCommand
    THEN outbox = <<Sent("reply", "usage")>>
    ELSE IF EmptyOnceStripped
    THEN outbox = <<Sent("reply", "include an address")>>
    ELSE outbox = <<Sent("reply", "running comps"), Sent("post", "/run_comps"),
                    Sent("document", "comps_report.pdf"),
                    Sent("reply", "summary")>>

====
